---- MODULE Spec2Model ----
(***************************************************************************)
(* Model of owfmodules.avrisp.read_fuses (ReadFuses module of the Octowire *)
(* framework): run() -> connect -> process() -> device identification,     *)
(* reset/SPI sequencing, one read per fuse group, parse_fuse decoding.      *)
(*                                                                         *)
(* Strings holding hexadecimal numbers ("0x0F") are sequences of digit     *)
(* values, most significant first; a digit value of 16 stands for a        *)
(* character that is not a hexadecimal digit.                              *)
(***************************************************************************)
EXTENDS Integers, Sequences, FiniteSets, TLC

\* ------------------------------------------------------------------ bounds
\* Longest field table drawn for a direct call of parse_fuse.
MaxFields == 2

\* ------------------------------------------------------ integer primitives
RECURSIVE Pow2(_)
Pow2(n) == IF n = 0 THEN 1 ELSE 2 * Pow2(n - 1)

\* Python's  a & b  on non-negative integers.
RECURSIVE BitAnd(_, _)
BitAnd(a, b) ==
    IF a = 0 \/ b = 0 THEN 0
    ELSE (a % 2) * (b % 2) + 2 * BitAnd(a \div 2, b \div 2)

\* Python's  a >> n  on non-negative integers.
ShiftRight(a, n) == a \div Pow2(n)

\* int(s, 16): defined when every character is a hexadecimal digit.
IsHex(s) == Len(s) > 0 /\ \A k \in 1..Len(s) : s[k] \in 0..15

RECURSIVE HexToInt(_)
HexToInt(s) ==
    IF Len(s) = 0 THEN 0
    ELSE 16 * HexToInt(SubSeq(s, 1, Len(s) - 1)) + s[Len(s)]

\* hex string of a byte, two digits
ByteToHex(m) == <<m \div 16, m % 16>>

\* ----------------------------------------------------- count_trailing_zero
\* The while loop.  When its test holds and its body leaves x as it is
\* (x >> 1 = x, which is x = 0) the test holds for ever and only the counter
\* moves: the call never returns, which Diverges stands for.
Diverges == -1

RECURSIVE ctz_loop(_, _)
ctz_loop(x, count) ==
    IF x % 2 # 0 THEN count
    ELSE IF x \div 2 = x THEN Diverges
    ELSE ctz_loop(x \div 2, count + 1)

\* the counter started at 1
count_from_one(x) == ctz_loop(x, 1)

count_trailing_zero(x) == ctz_loop(x, 0)

\* ------------------------------------------------------------- parse_fuse
\* Search of fuse_dict[fuse_name]["values"] in declared order (for/break/else):
\* index of the first entry whose code equals  code , 0 when the loop runs to
\* its else branch, -1 when int() raises ValueError on an entry reached first.
RECURSIVE match_from(_, _, _)
match_from(values, code, k) ==
    IF k > Len(values) THEN 0
    ELSE IF ~IsHex(values[k].value) THEN -1
    ELSE IF HexToInt(values[k].value) = code THEN k
    ELSE match_from(values, code, k + 1)

\* the search without its break: the last matching entry
RECURSIVE last_from(_, _, _, _)
last_from(values, code, k, found) ==
    IF k > Len(values) THEN found
    ELSE IF ~IsHex(values[k].value) THEN -1
    ELSE last_from(values, code, k + 1,
                   IF HexToInt(values[k].value) = code THEN k ELSE found)

last_match(values, code) == last_from(values, code, 1, 0)

first_match(values, code) == match_from(values, code, 1)

InvalidValue(fuse_name, code) ==
    [level |-> "ERROR", msg |-> "Invalid value for", subject |-> fuse_name,
     value |-> code]

EnumEntry(f, descr) ==
    [name |-> f.name, descr |-> f.caption, value_descr |-> descr.caption,
     value |-> descr.value, mask |-> f.mask]

\* "value" is the integer 1 or 0 here, written as a one-element sequence to
\* keep it apart from the hexadecimal strings of EnumEntry
BitEntry(f, set) ==
    [name |-> f.name, descr |-> f.caption,
     value_descr |-> IF set THEN "Unprogrammed" ELSE "Programmed",
     value |-> IF set THEN <<1>> ELSE <<0>>, mask |-> f.mask]

\* any mask bit set instead of all of them
any_bit_set(result, mask) == result # 0

all_bits_set(result, mask) == BitAnd(result, mask) = mask

\* the else clause of the search left out
no_match_silent(acc, f, code) == acc

\* an unmatched code raised instead of logged
no_match_raises(acc, f, code) == [acc EXCEPT !.status = "ValueError"]

\* for ... else: no entry matched; the field is logged and left out
no_match(acc, f, code) ==
    [acc EXCEPT !.log = Append(@, InvalidValue(f.name, code))]

\* One iteration of the loop over fuse_dict.items(): field f, with the output
\* dictionary (insertion ordered) and the logger calls made so far in acc.
parse_field(acc, f, fuse_value) ==
    IF ~IsHex(f.mask) THEN [acc EXCEPT !.status = "ValueError"]
    ELSE
      LET mask   == HexToInt(f.mask)
          result == BitAnd(fuse_value, mask)
      IN
      IF Len(f.values) > 0
      THEN
        LET trailing_zero == count_trailing_zero(mask) IN
        IF trailing_zero = Diverges THEN [acc EXCEPT !.status = "hang"]
        ELSE
          LET code == ShiftRight(result, trailing_zero)
              k    == first_match(f.values, code)
          IN
          IF k = -1 THEN [acc EXCEPT !.status = "ValueError"]
          ELSE IF k > 0
          THEN [acc EXCEPT !.output = Append(@, EnumEntry(f, f.values[k]))]
          ELSE no_match(acc, f, code)
      ELSE
        [acc EXCEPT
           !.output = Append(@, BitEntry(f, all_bits_set(result, mask)))]

\* The loop from field i on; it ends with the table, an exception or a hang.
RECURSIVE parse_from(_, _, _, _)
parse_from(fuse_dict, fuse_value, i, acc) ==
    IF i > Len(fuse_dict) \/ acc.status # "return" THEN acc
    ELSE parse_from(fuse_dict, fuse_value, i + 1,
                    parse_field(acc, fuse_dict[i], fuse_value))

parse_fuse(fuse_dict, fuse_value) ==
    parse_from(fuse_dict, fuse_value, 1,
               [status |-> "return", output |-> <<>>, log |-> <<>>])

\* ------------------------------------------------------------ field tables
Field(n, c, m, v) == [name |-> n, caption |-> c, mask |-> m, values |-> v]
Code(n, c, v) == [name |-> n, caption |-> c, value |-> v]

LOCK1 == Field("LOCK1", "Lock bit 1", <<0, 1>>, <<>>)
LOCK2 == Field("LOCK2", "Lock bit 2", <<0, 2>>, <<>>)
BODLEVEL == Field("BODLEVEL", "Brown-out level", <<0, 6>>, <<>>)
SUT_CKSEL ==
    Field("SUT_CKSEL", "Clock source", <<0, 15>>,
          <<Code("EXTOSC", "Ext Osc", <<0, 2>>),
            Code("INTRC", "Int RC", <<0, 4>>)>>)
BOOTSZ ==
    Field("BOOTSZ", "Boot size", <<3, 0>>,
          <<Code("BOOT_A", "First", <<0, 1>>),
            Code("BOOT_B", "Second", <<0, 1>>),
            Code("BOOT_C", "Other", <<0, 2>>)>>)
ZEROENUM ==
    Field("ZEROENUM", "Zero mask, enumerated", <<0, 0>>,
          <<Code("Z0", "Zero", <<0, 0>>)>>)
ZEROBIT == Field("ZEROBIT", "Zero mask, single bit", <<0, 0>>, <<>>)
BADMASK == Field("BADMASK", "Mask is not hexadecimal", <<0, 16>>, <<>>)

FieldPool ==
    {LOCK1, LOCK2, BODLEVEL, SUT_CKSEL, BOOTSZ, ZEROENUM, ZEROBIT, BADMASK}

\* one enumerated and one single-bit field for every 8-bit mask
AnyEnum(m) ==
    Field("ENUM", "Enumerated", ByteToHex(m),
          <<Code("E1", "One", <<0, 1>>), Code("E2", "Two", <<0, 2>>),
            Code("E5", "Five", <<0, 5>>)>>)
AnyBit(m) == Field("BIT", "Single bit", ByteToHex(m), <<>>)

Bytes == 0..255

DistinctNames(t) ==
    \A i, j \in 1..Len(t) : i # j => t[i].name # t[j].name

\* dictionaries: non-empty here, keys unique
PoolTables ==
    {t \in UNION {[1..n -> FieldPool] : n \in 1..MaxFields} : DistinctNames(t)}

DecodeTables ==
    PoolTables \cup {<<AnyEnum(m)>> : m \in Bytes}
               \cup {<<AnyBit(m)>> : m \in Bytes}

\* ----------------------------------------------------------------- devices
Groups == <<"fuse_low", "fuse_high", "fuse_extended", "lock_bits">>

Device(lo, hi, ext, lock) ==
    [fuse_low |-> lo, fuse_high |-> hi, fuse_extended |-> ext,
     lock_bits |-> lock]

\* what get_device_id can return besides None
Devices ==
    { Device(<<LOCK1, SUT_CKSEL, LOCK2>>, <<BOOTSZ>>, <<BODLEVEL>>,
             <<LOCK1, LOCK2>>),
      Device(<<SUT_CKSEL>>, <<BOOTSZ, LOCK2>>, <<>>, <<LOCK1, LOCK2>>),
      Device(<<>>, <<>>, <<>>, <<LOCK1>>),
      Device(<<LOCK1>>, <<>>, <<BOOTSZ>>, <<>>),
      Device(<<>>, <<>>, <<>>, <<>>),
      Device(<<LOCK1>>, <<LOCK2, ZEROENUM>>, <<>>, <<LOCK1>>),
      Device(<<ZEROBIT>>, <<>>, <<BADMASK, LOCK1>>, <<LOCK1>>) }

None == [fuse_low |-> <<>>, fuse_high |-> <<>>, fuse_extended |-> <<>>,
         lock_bits |-> <<>>, none |-> TRUE]

\* bytes the target answers with in a run of the module
WireBytes == {0, 2, 31, 255}

enable_mem_access_cmd == <<172, 83, 0, 0>>
read_low_fuse == <<80, 0, 0>>
read_high_fuse == <<88, 8, 0>>
read_extended_fuse == <<80, 8, 0>>
read_lockbits_cmd == <<88, 0, 0>>

\* high and extended fuse commands exchanged
ReadCmdSwapped(g) ==
    CASE g = 1 -> read_low_fuse
      [] g = 2 -> read_extended_fuse
      [] g = 3 -> read_high_fuse
      [] g = 4 -> read_lockbits_cmd

ReadCmd(g) ==
    CASE g = 1 -> read_low_fuse
      [] g = 2 -> read_high_fuse
      [] g = 3 -> read_extended_fuse
      [] g = 4 -> read_lockbits_cmd

Headers(g) ==
    IF g = 4 THEN <<"Lock bit name", "Status", "Value", "Mask">>
    ELSE <<"Fuse name", "Status", "Value", "Mask">>

\* ------------------------------------------------------------------- state
VARIABLES
    pc,          \* position in run()/process(), or in a direct parse_fuse call
    owf_serial,  \* self.owf_serial after connect()
    device,      \* result of get_device_id
    grp,         \* field group being read (index into Groups), 0 outside
    reset,       \* level the module last drove the reset line to
    trace,       \* GPIO and SPI operations completed, in order
    fuse_dict,   \* arguments and result of the latest parse_fuse call
    fuse_value,
    output,
    logger,      \* logger.handle calls, in order
    printed,     \* print_table calls, in order
    x,           \* argument and result of a direct count_trailing_zero call
    count

vars == <<pc, owf_serial, device, grp, reset, trace, fuse_dict, fuse_value,
          output, logger, printed, x, count>>

Table(d, g) ==
    CASE g = 1 -> d.fuse_low
      [] g = 2 -> d.fuse_high
      [] g = 3 -> d.fuse_extended
      [] g = 4 -> d.lock_bits

\* first group from g on whose table is not empty (the  if len(...) > 0  tests
\* of read_fuses and read_lockbits), 5 when there is none
RECURSIVE next_group(_, _)
next_group(d, g) ==
    IF g > 4 THEN 5
    ELSE IF Len(Table(d, g)) > 0 THEN g
    ELSE next_group(d, g + 1)

Gpio(what, v) == [op |-> what, data |-> <<v>>]
Spi(what, bytes) == [op |-> what, data |-> bytes]

Info(text) == [level |-> "INFO", msg |-> text, subject |-> "", value |-> 0]
Result(g, byte) ==
    [level |-> "RESULT", msg |-> "settings (Byte value)", subject |-> Groups[g],
     value |-> byte]
\* the two except clauses of run()
Caught(kind) ==
    [level |-> "ERROR", msg |-> kind, subject |-> "run", value |-> 0]

\* an exception leaves process(); run() logs it and returns
raise(kind) ==
    /\ logger' = Append(logger, Caught(kind))
    /\ pc' = "returned"

Init ==
    /\ pc = "run"
    /\ owf_serial = FALSE
    /\ device = None
    /\ grp = 0
    /\ reset = "undriven"
    /\ trace = <<>>
    /\ fuse_dict = <<>>
    /\ fuse_value = 0
    /\ output = <<>>
    /\ logger = <<>>
    /\ printed = <<>>
    /\ x = 0
    /\ count = 0

\* run(): connect(), then return when the serial handle is unset
run_connect ==
    /\ pc = "run"
    /\ \E found \in BOOLEAN :
         /\ owf_serial' = found
         /\ pc' = IF found THEN "process" ELSE "returned"
    /\ UNCHANGED <<device, grp, reset, trace, fuse_dict, fuse_value, output,
                   logger, printed, x, count>>

\* process(): device = self.get_device_id(...);  if device is not None
get_device_id ==
    /\ pc = "process"
    /\ \/ /\ \E d \in Devices : device' = d
          /\ pc' = "gpio_direction"
          /\ UNCHANGED logger
       \/ /\ device' = None
          /\ pc' = "returned"
          /\ UNCHANGED logger
       \/ /\ \E kind \in {"ValueError", "Exception"} : raise(kind)
          /\ UNCHANGED device
    /\ UNCHANGED <<owf_serial, grp, reset, trace, fuse_dict, fuse_value,
                   output, printed, x, count>>

\* one GPIO or SPI call of process(): completes and is recorded, or raises
io_step(here, event, level, there, g) ==
    /\ pc = here
    /\ \/ /\ trace' = Append(trace, event)
          /\ reset' = level
          /\ pc' = there
          /\ grp' = g
          /\ UNCHANGED logger
       \/ /\ raise("Exception")
          /\ UNCHANGED <<trace, reset, grp>>

\* reset.direction = GPIO.OUTPUT
gpio_direction ==
    /\ io_step("gpio_direction", Gpio("gpio_direction", 1), reset,
               "reset_high", 0)
    /\ UNCHANGED <<owf_serial, device, fuse_dict, fuse_value, output, printed,
                   x, count>>

\* reset.status = 1
reset_high ==
    /\ io_step("reset_high", Gpio("gpio_status", 1), "high", "spi_configure", 0)
    /\ UNCHANGED <<owf_serial, device, fuse_dict, fuse_value, output, printed,
                   x, count>>

\* spi_interface.configure(baudrate=...); logger "Enable Memory Access..."
spi_configure ==
    /\ pc = "spi_configure"
    /\ \/ /\ trace' = Append(trace, Spi("configure", <<>>))
          /\ logger' = Append(logger, Info("Enable Memory Access..."))
          /\ pc' = "reset_low"
       \/ /\ raise("Exception")
          /\ UNCHANGED trace
    /\ UNCHANGED <<owf_serial, device, grp, reset, fuse_dict, fuse_value,
                   output, printed, x, count>>

\* the line driven high where it is to go low
reset_low_high ==
    /\ io_step("reset_low", Gpio("gpio_status", 1), "high", "enable", 0)
    /\ UNCHANGED <<owf_serial, device, fuse_dict, fuse_value, output, printed,
                   x, count>>

\* reset.status = 0
reset_low ==
    /\ io_step("reset_low", Gpio("gpio_status", 0), "low", "enable", 0)
    /\ UNCHANGED <<owf_serial, device, fuse_dict, fuse_value, output, printed,
                   x, count>>

\* after a group: the next non-empty one, or the release of the reset line
after_group(d, g) ==
    IF next_group(d, g) <= 4 THEN "transmit" ELSE "reset_release"

group_after(d, g) == IF next_group(d, g) <= 4 THEN next_group(d, g) ELSE 0

\* spi_interface.transmit(enable_mem_access_cmd); time.sleep(0.5)
enable_mem_access ==
    /\ io_step("enable", Spi("transmit", enable_mem_access_cmd), reset,
               after_group(device, 1), group_after(device, 1))
    /\ UNCHANGED <<owf_serial, device, fuse_dict, fuse_value, output, printed,
                   x, count>>

\* read_fuses / read_lockbits: spi_interface.transmit(read command)
read_transmit ==
    /\ io_step("transmit", Spi("transmit", ReadCmd(grp)), reset, "receive", grp)
    /\ UNCHANGED <<owf_serial, device, fuse_dict, fuse_value, output, printed,
                   x, count>>

Rows(out) ==
    [k \in 1..Len(out) |->
        <<<<out[k].name, out[k].descr>>, out[k].value_descr, out[k].value,
          out[k].mask>>]

\* read_fuses / read_lockbits: spi_interface.receive(1)[0], the RESULT line,
\* parse_fuse and print_table of one group
read_receive ==
    /\ pc = "receive"
    /\ \/ /\ raise("Exception")
          /\ UNCHANGED <<trace, grp, fuse_dict, fuse_value, output, printed>>
       \/ \E byte \in WireBytes :
            LET r == parse_fuse(Table(device, grp), byte)
                l == Append(logger, Result(grp, byte)) \o r.log
            IN
            /\ trace' = Append(trace, Spi("receive", <<1>>))
            /\ fuse_dict' = Table(device, grp)
            /\ fuse_value' = byte
            /\ output' = r.output
            /\ \/ /\ r.status = "hang"
                  /\ logger' = l
                  /\ pc' = "hang"
                  /\ UNCHANGED <<grp, printed>>
               \/ /\ r.status = "ValueError"
                  /\ logger' = Append(l, Caught("ValueError"))
                  /\ pc' = "returned"
                  /\ UNCHANGED <<grp, printed>>
               \/ /\ r.status = "return"
                  /\ \/ /\ printed' = Append(printed,
                                          [headers |-> Headers(grp),
                                           rows |-> Rows(r.output)])
                        /\ logger' = l
                        /\ pc' = after_group(device, grp + 1)
                        /\ grp' = group_after(device, grp + 1)
                     \/ /\ logger' = Append(l, Caught("Exception"))
                        /\ pc' = "returned"
                        /\ UNCHANGED <<grp, printed>>
    /\ UNCHANGED <<owf_serial, device, reset, x, count>>

\* reset.status = 1 at the end of process(); process() and run() return
reset_release ==
    /\ io_step("reset_release", Gpio("gpio_status", 1), "high", "returned", 0)
    /\ UNCHANGED <<owf_serial, device, fuse_dict, fuse_value, output, printed,
                   x, count>>

Next ==
    \/ run_connect
    \/ get_device_id
    \/ gpio_direction
    \/ reset_high
    \/ spi_configure
    \/ reset_low
    \/ enable_mem_access
    \/ read_transmit
    \/ read_receive
    \/ reset_release

Spec == Init /\ [][Next]_vars

\* run() under a scheduler that lets every call return or raise
FairSpec == Spec /\ WF_vars(Next)

\* ------------------------------------------- parse_fuse called on its own
InitDecode ==
    /\ pc = "parse_fuse"
    /\ fuse_dict \in DecodeTables
    /\ fuse_value \in Bytes
    /\ owf_serial = TRUE
    /\ device = None
    /\ grp = 0
    /\ reset = "undriven"
    /\ trace = <<>>
    /\ output = <<>>
    /\ logger = <<>>
    /\ printed = <<>>
    /\ x = 0
    /\ count = 0

call_parse_fuse ==
    /\ pc = "parse_fuse"
    /\ LET r == parse_fuse(fuse_dict, fuse_value) IN
         /\ output' = r.output
         /\ logger' = r.log
         /\ pc' = CASE r.status = "return" -> "parsed"
                    [] r.status = "hang" -> "hang"
                    [] r.status = "ValueError" -> "raised"
    /\ UNCHANGED <<owf_serial, device, grp, reset, trace, fuse_dict,
                   fuse_value, printed, x, count>>

NextDecode == call_parse_fuse

SpecDecode == InitDecode /\ [][NextDecode]_vars

\* ---------------------------------- count_trailing_zero called on its own
InitCtz ==
    /\ pc = "count_trailing_zero"
    /\ x \in Bytes
    /\ count = 0
    /\ owf_serial = TRUE
    /\ device = None
    /\ grp = 0
    /\ reset = "undriven"
    /\ trace = <<>>
    /\ fuse_dict = <<>>
    /\ fuse_value = 0
    /\ output = <<>>
    /\ logger = <<>>
    /\ printed = <<>>

call_count_trailing_zero ==
    /\ pc = "count_trailing_zero"
    /\ LET r == count_trailing_zero(x) IN
         IF r = Diverges
         THEN pc' = "hang" /\ UNCHANGED count
         ELSE pc' = "counted" /\ count' = r
    /\ UNCHANGED <<owf_serial, device, grp, reset, trace, fuse_dict,
                   fuse_value, output, logger, printed, x>>

NextCtz == call_count_trailing_zero

SpecCtz == InitCtz /\ [][NextCtz]_vars

\* ============================================================== properties
Bit(n, k) == (n \div Pow2(k)) % 2

\* index of the lowest set bit of a non-zero byte
LowestSetBit(m) ==
    CHOOSE r \in 0..7 : Bit(m, r) = 1 /\ \A q \in 0..(r - 1) : Bit(m, q) = 0

\* b & m, bit by bit
AndBits(b, m) ==
    LET S[k \in 0..8] ==
          IF k = 8 THEN 0 ELSE Bit(b, k) * Bit(m, k) * Pow2(k) + S[k + 1]
    IN S[0]

Enumerated(f) == Len(f.values) > 0
MaskOf(f) == HexToInt(f.mask)
Codes(f) == {HexToInt(f.values[k].value) : k \in 1..Len(f.values)}
ExtractedCode(f, b) ==
    AndBits(b, MaskOf(f)) \div Pow2(LowestSetBit(MaskOf(f)))
MatchingEntries(f, b) ==
    {k \in 1..Len(f.values) : HexToInt(f.values[k].value) = ExtractedCode(f, b)}

OutputOf(n) == {k \in 1..Len(output) : output[k].name = n}
IsInvalidValue(e) == e.level = "ERROR" /\ e.msg = "Invalid value for"
LoggedFor(n) ==
    {k \in 1..Len(logger) : IsInvalidValue(logger[k]) /\ logger[k].subject = n}

SetMin(S) == CHOOSE a \in S : \A c \in S : a <= c
SetMax(S) == CHOOSE a \in S : \A c \in S : a >= c

\* C1: when parse_fuse returns, an enumerated field with a non-zero mask is in
\* the output, once, with the caption and code of a declared entry whose code
\* is (b & m) >> trailing_zeros(m), exactly when that code is declared; when
\* it is not declared the field is absent and exactly one error names it.
C1_EnumeratedDecodedIffDeclared ==
    pc = "parsed" =>
      \A i \in 1..Len(fuse_dict) :
        LET f == fuse_dict[i] IN
        (Enumerated(f) /\ MaskOf(f) # 0) =>
          IF ExtractedCode(f, fuse_value) \in Codes(f)
          THEN /\ Cardinality(OutputOf(f.name)) = 1
               /\ \A k \in OutputOf(f.name) :
                    /\ \E j \in MatchingEntries(f, fuse_value) :
                         /\ output[k].value_descr = f.values[j].caption
                         /\ output[k].value = f.values[j].value
                    /\ output[k].descr = f.caption
                    /\ output[k].mask = f.mask
               /\ LoggedFor(f.name) = {}
          ELSE /\ OutputOf(f.name) = {}
               /\ Cardinality(LoggedFor(f.name)) = 1
               /\ \A k \in LoggedFor(f.name) :
                    logger[k].value = ExtractedCode(f, fuse_value)

\* one table with a declared and an undeclared enumerated code
C1_Witness ==
    /\ pc = "parsed"
    /\ fuse_dict = <<SUT_CKSEL, BOOTSZ>>
    /\ fuse_value = 50
    /\ OutputOf("SUT_CKSEL") # {}
    /\ OutputOf("BOOTSZ") = {}
    /\ LoggedFor("BOOTSZ") # {}

\* C2: when parse_fuse returns, a field with an empty values list is in the
\* output, once, with value 1 / "Unprogrammed" when every bit of its mask is
\* set in the byte and value 0 / "Programmed" otherwise.
C2_SingleBitConvention ==
    pc = "parsed" =>
      \A i \in 1..Len(fuse_dict) :
        LET f == fuse_dict[i]
            allset == \A q \in 0..7 :
                         Bit(MaskOf(f), q) = 1 => Bit(fuse_value, q) = 1
        IN
        ~Enumerated(f) =>
          /\ Cardinality(OutputOf(f.name)) = 1
          /\ LoggedFor(f.name) = {}
          /\ \A k \in OutputOf(f.name) :
               /\ output[k].descr = f.caption
               /\ output[k].mask = f.mask
               /\ IF allset
                  THEN /\ output[k].value = <<1>>
                       /\ output[k].value_descr = "Unprogrammed"
                  ELSE /\ output[k].value = <<0>>
                       /\ output[k].value_descr = "Programmed"

\* a two-bit mask of which the byte sets one bit
C2_Witness ==
    /\ pc = "parsed"
    /\ fuse_dict = <<BODLEVEL>>
    /\ fuse_value = 2
    /\ output[1].value = <<0>>
    /\ output[1].value_descr = "Programmed"

HasZeroMask(t) ==
    \E i \in 1..Len(t) : IsHex(t[i].mask) /\ HexToInt(t[i].mask) = 0

\* C3: once parse_fuse has been called on a table with a zero mask it has
\* ended with an error, with no decoded field and no warning for any field.
C3_ZeroMaskFailsFast ==
    (pc \in {"parsed", "hang", "raised"} /\ HasZeroMask(fuse_dict)) =>
      /\ pc = "raised"
      /\ output = <<>>
      /\ logger = <<>>

\* C5: for a mask in 1..255 count_trailing_zero returns, and what it returns
\* is the index of the lowest set bit: at most 7, the mask shifted by it odd.
C5_TrailingZeroCount ==
    (pc # "count_trailing_zero" /\ x \in 1..255) =>
      /\ pc = "counted"
      /\ count = LowestSetBit(x)
      /\ count <= 7
      /\ x % Pow2(count) = 0
      /\ (x \div Pow2(count)) % 2 = 1
      /\ (x = 6 => count = 1)
      /\ \A r \in 0..7 : x = Pow2(r) => count = r

C5_Witness == pc = "counted" /\ x = 128 /\ count = 7

\* C7: when several entries of an enumerated field declare the extracted
\* code, the decoded caption and code are those of the first of them in
\* declared order, and no error names the field.
C7_FirstDeclaredEntryWins ==
    pc = "parsed" =>
      \A i \in 1..Len(fuse_dict) :
        LET f == fuse_dict[i]
            M == MatchingEntries(f, fuse_value)
        IN
        (Enumerated(f) /\ MaskOf(f) # 0 /\ Cardinality(M) > 1) =>
          /\ LoggedFor(f.name) = {}
          /\ \E k \in OutputOf(f.name) :
               /\ output[k].value_descr = f.values[SetMin(M)].caption
               /\ output[k].value = f.values[SetMin(M)].value

C7_Witness ==
    /\ pc = "parsed"
    /\ fuse_dict = <<BOOTSZ>>
    /\ fuse_value = 16
    /\ output[1].value_descr = "First"

\* ------------------------------------------------ properties of a run
IsStatus(e, v) == e.op = "gpio_status" /\ e.data = <<v>>
IsSpi(e) == e.op \in {"transmit", "receive"}

EnableIdx ==
    {k \in 1..Len(trace) :
        trace[k].op = "transmit" /\ trace[k].data = <<172, 83, 0, 0>>}

\* level the reset line was last driven to before operation k, -1 when none
LevelBefore(k) ==
    LET S == {j \in 1..(k - 1) : trace[j].op = "gpio_status"} IN
    IF S = {} THEN -1 ELSE trace[SetMax(S)].data[1]

\* the SPI transmits and receives after the enable command
TrafficAfterEnable ==
    IF EnableIdx = {} THEN <<>>
    ELSE SelectSeq(SubSeq(trace, SetMin(EnableIdx) + 1, Len(trace)), IsSpi)

Exchange(cmd) ==
    <<[op |-> "transmit", data |-> cmd], [op |-> "receive", data |-> <<1>>]>>

ExpectedTraffic(d) ==
    (IF Len(d.fuse_low) > 0 THEN Exchange(<<80, 0, 0>>) ELSE <<>>)
    \o (IF Len(d.fuse_high) > 0 THEN Exchange(<<88, 8, 0>>) ELSE <<>>)
    \o (IF Len(d.fuse_extended) > 0 THEN Exchange(<<80, 8, 0>>) ELSE <<>>)
    \o (IF Len(d.lock_bits) > 0 THEN Exchange(<<88, 0, 0>>) ELSE <<>>)

IsPrefix(s, t) == Len(s) <= Len(t) /\ s = SubSeq(t, 1, Len(s))

IsCaught(e) == e.level = "ERROR" /\ e.subject = "run"
NoneCaught == \A k \in 1..Len(logger) : ~IsCaught(logger[k])

\* read_lockbits has returned: the reads of process() are over
ReadsDone ==
    \/ pc = "reset_release"
    \/ pc = "returned" /\ device # None /\ reset = "high" /\ EnableIdx # {}
       /\ IsStatus(trace[Len(trace)], 1)

\* process() ran to its end
Completed == pc = "returned" /\ device # None /\ NoneCaught

NonEmptyBefore(d, g) ==
    Cardinality({h \in 1..(g - 1) : Len(Table(d, h)) > 0})

\* C6: with an identified device the SPI traffic after the enable command is
\* at every moment a prefix of: low, high, extended, lock-bit read command,
\* each followed by one 1-byte receive, for the groups with a non-empty table
\* only; it is the whole of that sequence once the reads of process() are
\* over; no read command or receive precedes the enable command.
C6_ReadTrafficInOrder ==
    device # None =>
      /\ IsPrefix(TrafficAfterEnable, ExpectedTraffic(device))
      /\ (ReadsDone \/ Completed) =>
            TrafficAfterEnable = ExpectedTraffic(device)
      /\ \A k \in 1..Len(trace) :
           (IsSpi(trace[k]) /\ k \notin EnableIdx) =>
              (EnableIdx # {} /\ SetMin(EnableIdx) < k)

\* a device without extended fuses, read to the end
C6_Witness ==
    /\ Completed
    /\ Len(device.fuse_extended) = 0
    /\ Len(device.fuse_high) > 0
    /\ Len(TrafficAfterEnable) = 6

\* C8: the line is driven high before SPI is configured and low before the
\* enable command; it is low at every transmit and receive; it goes high
\* again only as the last operation, after the whole read traffic; the
\* enable command is sent at most once, before any read, and once in a run
\* that reaches the end of the reads; no GPIO or SPI operation is made when
\* no device is identified.
C8_ResetSequencing ==
    /\ device = None => trace = <<>>
    /\ \A k \in 1..Len(trace) :
         /\ trace[k].op = "configure" => LevelBefore(k) = 1
         /\ IsSpi(trace[k]) => LevelBefore(k) = 0
         /\ (IsSpi(trace[k]) /\ k \notin EnableIdx) =>
               (EnableIdx # {} /\ SetMin(EnableIdx) < k)
         /\ (IsStatus(trace[k], 1) /\ LevelBefore(k) = 0) =>
               /\ k = Len(trace)
               /\ TrafficAfterEnable = ExpectedTraffic(device)
    /\ Cardinality(EnableIdx) <= 1
    /\ (ReadsDone \/ Completed) => Cardinality(EnableIdx) = 1
    /\ (reset = "low") = (Len(trace) > 0 /\ LevelBefore(Len(trace) + 1) = 0)

C8_Witness ==
    /\ Completed
    /\ reset = "high"
    /\ Len(device.lock_bits) > 0
    /\ Len(trace) >= 8

\* C9: when run() has returned after the reset line was driven low, the line
\* has been driven high again.
C9_ResetReleasedOnReturn ==
    (pc = "returned" /\ \E k \in 1..Len(trace) : IsStatus(trace[k], 0)) =>
      reset = "high"

\* C10: run() returns in every run; with the serial handle unset nothing is
\* done; an exception is logged once as an error and goes no further.
C10_RunAlwaysReturns ==
    /\ <>(pc = "returned")
    /\ [](pc = "returned" /\ ~owf_serial =>
            trace = <<>> /\ device = None /\ logger = <<>>)
    /\ [](Cardinality({k \in 1..Len(logger) : IsCaught(logger[k])}) <= 1)

\* ---------------------------------------- the latest parse_fuse of a run
LastResultIdx ==
    SetMax({k \in 1..Len(logger) : logger[k].level = "RESULT"})

LatestLog ==
    SelectSeq(SubSeq(logger, LastResultIdx + 1, Len(logger)), IsInvalidValue)

CallStatus ==
    IF pc = "hang" THEN "hang"
    ELSE IF pc = "returned" /\ logger[Len(logger)] = Caught("ValueError")
    THEN "ValueError"
    ELSE "return"

Remove(t, i) == SubSeq(t, 1, i - 1) \o SubSeq(t, i + 1, Len(t))

Unmatched(f, b) ==
    /\ IsHex(f.mask)
    /\ Enumerated(f)
    /\ MaskOf(f) # 0
    /\ ExtractedCode(f, b) \notin Codes(f)

\* C4: for the latest group decoded, taking a field whose code matches no
\* declared code out of the table changes neither the way parse_fuse ends nor
\* the entry or error of any other field; and the groups after it are read:
\* at each read the tables printed are those of all non-empty groups before
\* it, and of all non-empty groups once the reads are over.
C4_UnmatchedFieldDoesNotAbort ==
    /\ fuse_dict # <<>> =>
         \A i \in 1..Len(fuse_dict) :
           Unmatched(fuse_dict[i], fuse_value) =>
             LET r == parse_fuse(Remove(fuse_dict, i), fuse_value)
                 others(e) == e.subject # fuse_dict[i].name
             IN
             /\ r.status = CallStatus
             /\ r.output = output
             /\ r.log = SelectSeq(LatestLog, others)
    /\ pc \in {"transmit", "receive"} =>
         Len(printed) = NonEmptyBefore(device, grp)
    /\ (ReadsDone \/ Completed) => Len(printed) = NonEmptyBefore(device, 5)

\* an unmatched field between two others in the first group, all four groups
\* decoded
C4_Witness ==
    /\ Completed
    /\ Len(printed) = 4
    /\ \E k \in 1..Len(logger) :
         IsInvalidValue(logger[k]) /\ logger[k].subject = "SUT_CKSEL"
    /\ Len(printed[1].rows) = 2

====
